---- MODULE Spec2Model ----
(***************************************************************************)
(* State-machine model of LudoEnv (MultiAgentLudoEnv.py): a four-player,   *)
(* four-token Ludo engine.  One action per public operation (reset, step); *)
(* the private helpers of the class are operators computed as the code     *)
(* computes them.  Player indices are those of possible_agents (0 = red,   *)
(* 1 = green, 2 = blue, 3 = yellow); token indices are 0..3.               *)
(***************************************************************************)
EXTENDS Integers, Sequences, FiniteSets

VARIABLES
    state,               \* self.state: player index -> token index -> position
    current_player,      \* self.current_player
    dice_roll,           \* self.dice_roll
    agent_selection,     \* self.agent_selection
    selector,            \* self._agent_selector._current_agent
    rewards,             \* self.rewards
    _cumulative_rewards, \* self._cumulative_rewards
    _dones,              \* self._dones
    last_op,             \* history: the operation that produced this state
    last_action,         \* history: the action argument of the last step call
    prev,                \* history: the object's fields when the last call was made
    observation,         \* history: the value the last call returned
    advanced,            \* history: steps each token made on the shared loop
                         \* since it last entered from the bench
    turns                \* number of step calls made since Init or reset

vars == <<state, current_player, dice_roll, agent_selection, selector, rewards,
          _cumulative_rewards, _dones, last_op, last_action, prev, observation,
          advanced, turns>>

-----------------------------------------------------------------------------
(* Module constants                                                        *)

NUM_PLAYERS == 4

NUM_TOKENS == 4

OUT_OF_BOUNDS == -1

START_SQUARE == 0

FINAL_SQUARE == 58

possible_agents == <<"red", "green", "blue", "yellow">>

PlayerIndices == 0..(NUM_PLAYERS - 1)

TokenIndices == 0..(NUM_TOKENS - 1)

Agents == {possible_agents[i] : i \in 1..NUM_PLAYERS}

\* list.index: the 0-based index of an agent name in possible_agents
index(agent) == CHOOSE i \in PlayerIndices : possible_agents[i + 1] = agent

\* list(range(a, b)) as a 1-based sequence
range(a, b) == [i \in 1..(b - a) |-> a + i - 1]

\* x in list
in(x, list) == \E i \in 1..Len(list) : list[i] = x

start_positions == <<0, 13, 26, 39>>

\* a table in which red's range ends at its last loop square like the others
home_stretches_red_before_start == <<range(46, 52), range(12, 18), range(25, 31), range(38, 44)>>

home_stretches == <<range(51, 57), range(12, 18), range(25, 31), range(38, 44)>>

min(a, b) == IF a <= b THEN a ELSE b

-----------------------------------------------------------------------------
(* Bounds of the exploration                                               *)

\* step calls explored after Init or after a reset
MaxTurns == 3

\* arguments a caller passes to step: the five actions and one value on
\* either side of the action space
Actions == -1..5

\* values of np.random.randint(1, 7)
Rolls == 1..6

-----------------------------------------------------------------------------
(* Private helpers                                                         *)

\* the position advance without the cap at 58
_calculate_new_position_uncapped(current_pos, steps, selection) ==
    IF current_pos < 52
    THEN LET new_pos == (current_pos + steps) % 52
             player_index == index(selection)
         IN  IF in(new_pos, home_stretches[player_index + 1])
             THEN 52 + (new_pos - home_stretches[player_index + 1][1])
             ELSE new_pos
    ELSE IF current_pos < 57
         THEN current_pos + steps
         ELSE current_pos

\* the position advance with the home-stretch cap one square early
_calculate_new_position_cap_57(current_pos, steps, selection) ==
    IF current_pos < 52
    THEN LET new_pos == (current_pos + steps) % 52
             player_index == index(selection)
         IN  IF in(new_pos, home_stretches[player_index + 1])
             THEN 52 + (new_pos - home_stretches[player_index + 1][1])
             ELSE new_pos
    ELSE IF current_pos < 57
         THEN min(current_pos + steps, 57)
         ELSE current_pos

_calculate_new_position(current_pos, steps, selection) ==
    IF current_pos < 52
    THEN LET new_pos == (current_pos + steps) % 52
             player_index == index(selection)
         IN  IF in(new_pos, home_stretches[player_index + 1])
             THEN 52 + (new_pos - home_stretches[player_index + 1][1])
             ELSE new_pos
    ELSE IF current_pos < 57
         THEN min(current_pos + steps, 58)
         ELSE current_pos

\* the (player, piece) pairs the double loop of _check_capture can return
CaptureCandidates(board, position, selection) ==
    {pp \in PlayerIndices \X TokenIndices :
        /\ pp[1] # index(selection)
        /\ board[pp[1]][pp[2]] = position}

\* the first pair in loop order (player major, piece minor)
FirstInLoopOrder(S) ==
    CHOOSE a \in S : \A b \in S : a[1] < b[1] \/ (a[1] = b[1] /\ a[2] <= b[2])

\* capture detection without the test for start squares
_check_capture_no_safe_squares(board, position, selection) ==
    LET C == CaptureCandidates(board, position, selection)
    IN  IF C = {}
        THEN [captured |-> <<>>, state |-> board]
        ELSE LET c == FirstInLoopOrder(C)
             IN  [captured |-> c,
                  state |-> [board EXCEPT ![c[1]][c[2]] = OUT_OF_BOUNDS]]

\* capture detection that reports the capture without benching the token
_check_capture_keeps_token(board, position, selection) ==
    IF in(position, start_positions)
    THEN [captured |-> <<>>, state |-> board]
    ELSE LET C == CaptureCandidates(board, position, selection)
         IN  IF C = {}
             THEN [captured |-> <<>>, state |-> board]
             ELSE [captured |-> FirstInLoopOrder(C), state |-> board]

\* capture detection without the return inside the loops: every token of
\* another player on the cell is benched
_check_capture_all(board, position, selection) ==
    IF in(position, start_positions)
    THEN [captured |-> <<>>, state |-> board]
    ELSE LET C == CaptureCandidates(board, position, selection)
         IN  IF C = {}
             THEN [captured |-> <<>>, state |-> board]
             ELSE [captured |-> FirstInLoopOrder(C),
                   state |-> [p \in PlayerIndices |-> [t \in TokenIndices |->
                                 IF <<p, t>> \in C THEN OUT_OF_BOUNDS
                                 ELSE board[p][t]]]]

\* returns the pair captured (<<>> for None) and the board after the call
_check_capture(board, position, selection) ==
    IF in(position, start_positions)
    THEN [captured |-> <<>>, state |-> board]
    ELSE LET C == CaptureCandidates(board, position, selection)
         IN  IF C = {}
             THEN [captured |-> <<>>, state |-> board]
             ELSE LET c == FirstInLoopOrder(C)
                  IN  [captured |-> c,
                       state |-> [board EXCEPT ![c[1]][c[2]] = OUT_OF_BOUNDS]]

\* the mask with a strict comparison against FINAL_SQUARE - roll
_mask_actions_strict(board, agent, roll) ==
    LET player_index == index(agent)
    IN  [a \in 0..4 |->
            IF a = 0
            THEN IF (\E t \in TokenIndices : board[player_index][t] = OUT_OF_BOUNDS)
                    /\ roll = 6
                 THEN 1 ELSE 0
            ELSE IF /\ START_SQUARE <= board[player_index][a - 1]
                    /\ board[player_index][a - 1] < FINAL_SQUARE - roll
                 THEN 1 ELSE 0]

_mask_actions(board, agent, roll) ==
    LET player_index == index(agent)
    IN  [a \in 0..4 |->
            IF a = 0
            THEN IF (\E t \in TokenIndices : board[player_index][t] = OUT_OF_BOUNDS)
                    /\ roll = 6
                 THEN 1 ELSE 0
            ELSE IF /\ START_SQUARE <= board[player_index][a - 1]
                    /\ board[player_index][a - 1] <= FINAL_SQUARE - roll
                 THEN 1 ELSE 0]

\* the termination check with all() in place of any()
_check_game_over_all_players(board) ==
    \A p \in PlayerIndices : \A t \in TokenIndices : board[p][t] = FINAL_SQUARE

_check_game_over(board) ==
    \E p \in PlayerIndices : \A t \in TokenIndices : board[p][t] = FINAL_SQUARE

\* agent_selector.next(): advances _current_agent and returns
\* agent_order[_current_agent - 1] (Python index -1 is the last element)
selector_next(cur) ==
    LET nxt == (cur + 1) % NUM_PLAYERS
    IN  [current |-> nxt,
         selected |-> possible_agents[((nxt - 1) % NUM_PLAYERS) + 1]]

-----------------------------------------------------------------------------
(* Operations as functions on the record of the object's fields            *)

reset_fields ==
    [state |-> [p \in PlayerIndices |-> [t \in TokenIndices |-> OUT_OF_BOUNDS]],
     current_player |-> "red",
     dice_roll |-> 0,
     _cumulative_rewards |-> [a \in Agents |-> 0],
     agent_selection |-> "red",
     selector |-> 0,
     rewards |-> [a \in Agents |-> 0],
     _dones |-> [a \in Agents |-> FALSE]]

\* the enter branch with the highest-index bench token taken instead
enter_last_token(board, player_index) ==
    LET bench == {t \in TokenIndices : board[player_index][t] = OUT_OF_BOUNDS}
    IN  IF bench = {}
        THEN [state |-> board, reward |-> 0]
        ELSE LET token == CHOOSE t \in bench : \A u \in bench : t >= u
             IN  [state |-> [board EXCEPT ![player_index][token] =
                                              start_positions[player_index + 1]],
                  reward |-> 0]

\* the enter branch of step: the for loop that stops at the first token on
\* the bench
enter_token(board, player_index) ==
    LET bench == {t \in TokenIndices : board[player_index][t] = OUT_OF_BOUNDS}
    IN  IF bench = {}
        THEN [state |-> board, reward |-> 0]
        ELSE LET token == CHOOSE t \in bench : \A u \in bench : t <= u
             IN  [state |-> [board EXCEPT ![player_index][token] =
                                              start_positions[player_index + 1]],
                  reward |-> 0]

\* the move branch of step without the test that the token is on the board
move_token_from_bench(board, agent, token, roll) ==
    LET player_index == index(agent)
        new_pos == _calculate_new_position(board[player_index][token],
                                           roll, agent)
        moved == [board EXCEPT ![player_index][token] = new_pos]
        cap == _check_capture(moved, new_pos, agent)
    IN  [state |-> cap.state,
         reward |-> (IF cap.captured # <<>> THEN 1 ELSE 0)
                    + (IF new_pos = FINAL_SQUARE THEN 2 ELSE 0)]

\* the move branch of step
move_token(board, agent, token, roll) ==
    LET player_index == index(agent)
    IN  IF board[player_index][token] # OUT_OF_BOUNDS
        THEN LET new_pos == _calculate_new_position(board[player_index][token],
                                                    roll, agent)
                 moved == [board EXCEPT ![player_index][token] = new_pos]
                 cap == _check_capture(moved, new_pos, agent)
             IN  [state |-> cap.state,
                  reward |-> (IF cap.captured # <<>> THEN 1 ELSE 0)
                             + (IF new_pos = FINAL_SQUARE THEN 2 ELSE 0)]
        ELSE [state |-> board, reward |-> 0]

\* the if/elif of step with the enter branch taken on every roll
step_board_enter_any_roll(board, agent, action, roll) ==
    IF action = 0
    THEN enter_token(board, index(agent))
    ELSE IF 1 <= action /\ action <= 4
         THEN move_token(board, agent, action - 1, roll)
         ELSE [state |-> board, reward |-> 0]

\* the board after the if/elif of step, and the reward accrued
step_board(board, agent, action, roll) ==
    IF action = 0 /\ roll = 6
    THEN enter_token(board, index(agent))
    ELSE IF 1 <= action /\ action <= 4
         THEN move_token(board, agent, action - 1, roll)
         ELSE [state |-> board, reward |-> 0]

\* step when self._dones[self.agent_selection] holds: the call is handed to
\* the base class and raises; no field of the object is written
_was_done_step(s, action) == s

\* step with the selector advanced after every turn, the winning one included
step_advances_always(s, action, roll) ==
    IF s._dones[s.agent_selection]
    THEN _was_done_step(s, action)
    ELSE LET agent == s.agent_selection
             sb == step_board(s.state, agent, action, roll)
             over == _check_game_over(sb.state)
             nx == selector_next(s.selector)
         IN  [state |-> sb.state,
              current_player |-> s.current_player,
              dice_roll |-> roll,
              _cumulative_rewards |->
                  [s._cumulative_rewards EXCEPT ![agent] = @ + sb.reward],
              agent_selection |-> nx.selected,
              selector |-> nx.current,
              rewards |-> [s.rewards EXCEPT ![agent] = sb.reward],
              _dones |-> IF over THEN [a \in Agents |-> TRUE] ELSE s._dones]

\* roll is the value np.random.randint(1, 7) returns in this call
step(s, action, roll) ==
    IF s._dones[s.agent_selection]
    THEN _was_done_step(s, action)
    ELSE LET agent == s.agent_selection
             sb == step_board(s.state, agent, action, roll)
             over == _check_game_over(sb.state)
             nx == selector_next(s.selector)
         IN  [state |-> sb.state,
              current_player |-> s.current_player,
              dice_roll |-> roll,
              _cumulative_rewards |->
                  [s._cumulative_rewards EXCEPT ![agent] = @ + sb.reward],
              agent_selection |-> IF over THEN s.agent_selection ELSE nx.selected,
              selector |-> IF over THEN s.selector ELSE nx.current,
              rewards |-> [s.rewards EXCEPT ![agent] = sb.reward],
              _dones |-> IF over THEN [a \in Agents |-> TRUE] ELSE s._dones]

\* reset() without the line that creates a new agent selector
reset_keeps_selector(s) == [reset_fields EXCEPT !.selector = s.selector]

\* reset() on an object with fields s: every field is assigned anew, the
\* agent selector included
reset(s) == reset_fields

\* the dictionary observe(agent) returns
observe(s, agent) ==
    [board_state |-> s.state,
     current_player |-> index(s.agent_selection),
     action_mask |-> _mask_actions(s.state, agent, s.dice_roll),
     last_roll |-> s.dice_roll]

\* the steps each token has made on the shared loop since it entered, after
\* a step of s: the token that enters starts at 0, and a token moved from a
\* shared-loop position has made roll more steps
advanced_after(adv, s, action, roll) ==
    LET p == index(s.agent_selection)
        bench == {t \in TokenIndices : s.state[p][t] = OUT_OF_BOUNDS}
    IN  IF s._dones[s.agent_selection]
        THEN adv
        ELSE IF action = 0 /\ roll = 6 /\ bench # {}
        THEN [adv EXCEPT ![p][CHOOSE t \in bench : \A u \in bench : t <= u] = 0]
        ELSE IF /\ 1 <= action /\ action <= 4
                /\ s.state[p][action - 1] # OUT_OF_BOUNDS
                /\ s.state[p][action - 1] < 52
        THEN [adv EXCEPT ![p][action - 1] = @ + roll]
        ELSE adv

\* the object together with the record of the last call made on it
AfterReset ==
    [fields |-> reset_fields, prev |-> reset_fields,
     last_op |-> "reset", last_action |-> 0, observation |-> <<>>,
     advanced |-> [p \in PlayerIndices |-> [t \in TokenIndices |-> 0]]]

\* reset() called on the object of h
AfterResetOf(h) ==
    [fields |-> reset(h.fields),
     prev |-> h.fields,
     last_op |-> "reset", last_action |-> 0, observation |-> <<>>,
     advanced |-> [p \in PlayerIndices |-> [t \in TokenIndices |-> 0]]]

AfterStep(h, action, roll) ==
    [fields |-> step(h.fields, action, roll),
     prev |-> h.fields,
     last_op |-> IF h.fields._dones[h.fields.agent_selection]
                 THEN "was_done_step" ELSE "step",
     last_action |-> action,
     observation |-> <<>>,
     advanced |-> advanced_after(h.advanced, h.fields, action, roll)]

\* observe(agent) called on the object of h: no field is assigned
AfterObserve(h, agent) ==
    [fields |-> h.fields,
     prev |-> h.fields,
     last_op |-> "observe",
     last_action |-> 0,
     observation |-> observe(h.fields, agent),
     advanced |-> h.advanced]

-----------------------------------------------------------------------------
(* Scripted games                                                          *)

\* A step that changes nothing: enter submitted with a roll of 1
Pass == <<0, 1>>

\* One round of turns in selector order after the opening turn
Round(r, g, b, y) == <<r, g, b, y>>

\* Games played from reset up to the states from which every continuation
\* of MaxTurns steps is explored.  Each is a sequence of <<action, roll>>,
\* one per step call, the first by red (reset) and the following ones by
\* red, green, blue, yellow in rotation.

\* the game that has just been reset
FreshGame == <<>>

\* red [12, 6, -, -], green [18, 13, -, -], blue [26, -, -, -],
\* yellow [39, -, -, -]; red to move
MidGame ==
    <<(<<0, 6>>)>>
    \o Round(<<1, 6>>, <<0, 6>>, <<0, 6>>, <<0, 6>>)
    \o Round(<<1, 6>>, <<1, 5>>, Pass, Pass)
    \o Round(<<0, 6>>, <<0, 6>>, Pass, Pass)
    \o Round(<<2, 6>>, Pass, Pass, Pass)

\* green [58, 58, 58, 54], blue [55, -, -, -], red [0, -, -, -],
\* yellow all on the bench; green to move
EndGame ==
    <<(<<0, 6>>)>>
    \o Round(Pass, <<0, 6>>, <<0, 6>>, Pass)
    \o Round(Pass, <<1, 1>>, <<1, 2>>, Pass)
    \o Round(Pass, <<1, 4>>, Pass, Pass)
    \o Round(Pass, <<0, 6>>, Pass, Pass)
    \o Round(Pass, <<2, 1>>, Pass, Pass)
    \o Round(Pass, <<2, 4>>, Pass, Pass)
    \o Round(Pass, <<0, 6>>, Pass, Pass)
    \o Round(Pass, <<3, 1>>, Pass, Pass)
    \o Round(Pass, <<3, 4>>, Pass, Pass)
    \o Round(Pass, <<0, 6>>, Pass, Pass)
    \o Round(Pass, <<4, 1>>, Pass, Pass)
    \o <<Pass>>

\* red [48, 12, -, -], green [-, 18, -, -], blue [26, -, -, -],
\* yellow [18, 57, -, -]; yellow to move.  Yellow reached 18 by capturing
\* one of two green tokens that stood there.
LateGame ==
    <<(<<0, 6>>)>>
    \o Round(<<1, 6>>, <<0, 6>>, <<0, 6>>, <<0, 6>>)
    \o Round(<<1, 6>>, Pass, Pass, <<1, 6>>)
    \o Round(<<1, 6>>, Pass, Pass, <<1, 6>>)
    \o Round(<<1, 6>>, <<1, 5>>, Pass, <<1, 6>>)
    \o Round(<<1, 6>>, <<0, 6>>, Pass, <<1, 6>>)
    \o Round(<<1, 6>>, <<2, 5>>, Pass, <<1, 6>>)
    \o Round(<<1, 6>>, Pass, Pass, <<1, 1>>)
    \o Round(<<1, 6>>, Pass, Pass, <<0, 6>>)
    \o Round(<<0, 6>>, Pass, Pass, <<2, 4>>)
    \o Round(<<2, 6>>, Pass, Pass, Pass)
    \o Round(<<2, 6>>, Pass, Pass, Pass)
    \o <<Pass, Pass, Pass>>

Scenarios == {FreshGame, MidGame, EndGame, LateGame}

-----------------------------------------------------------------------------
(* The state machine                                                       *)

fields ==
    [state |-> state,
     current_player |-> current_player,
     dice_roll |-> dice_roll,
     _cumulative_rewards |-> _cumulative_rewards,
     agent_selection |-> agent_selection,
     selector |-> selector,
     rewards |-> rewards,
     _dones |-> _dones]

history ==
    [fields |-> fields, prev |-> prev, last_op |-> last_op,
     last_action |-> last_action, observation |-> observation,
     advanced |-> advanced]

\* the driver loop: the object after reset() and one step call per entry
\* <<action, roll>> of the script, the roll being the value step draws
\* (each call is evaluated before the next one is made)
RECURSIVE Play(_, _)
Play(h, script) ==
    IF script = <<>>
    THEN h
    ELSE LET after == AfterStep(h, Head(script)[1], Head(script)[2])
         IN  IF after.last_op = "reset" THEN after ELSE Play(after, Tail(script))

Init ==
    /\ \E script \in Scenarios :
           LET h == Play(AfterReset, script)
           IN  /\ state = h.fields.state
               /\ current_player = h.fields.current_player
               /\ dice_roll = h.fields.dice_roll
               /\ _cumulative_rewards = h.fields._cumulative_rewards
               /\ agent_selection = h.fields.agent_selection
               /\ selector = h.fields.selector
               /\ rewards = h.fields.rewards
               /\ _dones = h.fields._dones
               /\ last_op = h.last_op
               /\ last_action = h.last_action
               /\ prev = h.prev
               /\ observation = h.observation
               /\ advanced = h.advanced
    /\ turns = 0

Becomes(h) ==
    /\ state' = h.fields.state
    /\ current_player' = h.fields.current_player
    /\ dice_roll' = h.fields.dice_roll
    /\ _cumulative_rewards' = h.fields._cumulative_rewards
    /\ agent_selection' = h.fields.agent_selection
    /\ selector' = h.fields.selector
    /\ rewards' = h.fields.rewards
    /\ _dones' = h.fields._dones
    /\ last_op' = h.last_op
    /\ last_action' = h.last_action
    /\ prev' = h.prev
    /\ observation' = h.observation
    /\ advanced' = h.advanced

\* reset(), called before a step
Reset ==
    /\ turns < MaxTurns
    /\ Becomes(AfterResetOf(history))
    /\ turns' = 0

\* step(action) while the game is running
Step ==
    /\ turns < MaxTurns
    /\ ~_dones[agent_selection]
    /\ \E action \in Actions, roll \in Rolls :
           Becomes(AfterStep(history, action, roll))
    /\ turns' = turns + 1

\* step(action) after the game has ended
StepWhenDone ==
    /\ turns < MaxTurns
    /\ _dones[agent_selection]
    /\ \E action \in Actions :
           Becomes(AfterStep(history, action, 0))
    /\ turns' = turns + 1

\* observe(agent), called before a step
Observe ==
    /\ turns < MaxTurns
    /\ \E agent \in Agents : Becomes(AfterObserve(history, agent))
    /\ turns' = turns

Next == Reset \/ Step \/ StepWhenDone \/ Observe

Spec == Init /\ [][Next]_vars

-----------------------------------------------------------------------------
(* Vocabulary of the properties: what the last call did                    *)

\* the last call was a step made while the game was running
Stepped == last_op = "step"

\* the agent that made the last step and its player index
mover_agent == prev.agent_selection

mover == index(mover_agent)

\* the last step was a move of token k, which was on the board
Moved(k) ==
    /\ Stepped
    /\ last_action = k + 1
    /\ prev.state[mover][k] # -1

\* the tokens the last call sent from the board to the bench
Benched ==
    {pt \in (0..3) \X (0..3) :
        prev.state[pt[1]][pt[2]] # -1 /\ state[pt[1]][pt[2]] = -1}

\* the reward the last step gave to the agent that made it
turn_reward == rewards[mover_agent]

AllDone == \A a \in {"red", "green", "blue", "yellow"} : _dones[a]

NoneDone == \A a \in {"red", "green", "blue", "yellow"} : ~_dones[a]

\* the fixed order Red, Green, Blue, Yellow, Red, ...
Successor(agent) ==
    CASE agent = "red" -> "green"
      [] agent = "green" -> "blue"
      [] agent = "blue" -> "yellow"
      [] agent = "yellow" -> "red"

\* the start square of each player
StartSquare(p) ==
    CASE p = 0 -> 0
      [] p = 1 -> 13
      [] p = 2 -> 26
      [] p = 3 -> 39

-----------------------------------------------------------------------------
(* C1 *)

\* C1: in every state reachable from reset, each of the 16 token positions
\* is the bench value -1 or an integer in 0..58.
C1_PositionsInDomain ==
    \A p \in 0..3, t \in 0..3 : state[p][t] = -1 \/ state[p][t] \in 0..58

\* a home-stretch token was moved by a roll larger than its distance to 58
\* and stands on 58
C1_Witness ==
    \E k \in 0..3 :
        /\ Moved(k)
        /\ prev.state[mover][k] \in 52..56
        /\ prev.state[mover][k] + dice_roll > 58
        /\ state[mover][k] = 58

-----------------------------------------------------------------------------
(* C2 *)

\* C2: when a move leaves the moved token at a position in 52..58, no token
\* of another player is sent to the bench by that turn.
C2_NoCaptureInHomeStretch ==
    \A k \in 0..3 :
        (Moved(k) /\ state[mover][k] \in 52..58)
            => \A pt \in Benched : pt[1] = mover

-----------------------------------------------------------------------------
(* C3 *)

\* C3: a token that is at 58 is at 58 after every later call until reset.
C3_FinishedTokenStays ==
    last_op # "reset"
        => \A p \in 0..3, t \in 0..3 : prev.state[p][t] = 58 => state[p][t] = 58

-----------------------------------------------------------------------------
(* C4 *)

\* C4: the turn reward is +2 exactly when the moved token changes to 58 from
\* a position below 58, plus +1 exactly when a token was captured; a move
\* aimed at a token already at 58 earns no finish reward.
C4_FinishRewardOnlyOnReaching58 ==
    Stepped =>
        LET finished == \E k \in 0..3 : /\ Moved(k)
                                        /\ prev.state[mover][k] < 58
                                        /\ state[mover][k] = 58
            captured == Benched # {}
        IN  /\ turn_reward = (IF finished THEN 2 ELSE 0) + (IF captured THEN 1 ELSE 0)
            /\ turn_reward \in {0, 1, 2, 3}

-----------------------------------------------------------------------------
(* C5 *)

\* the last step consumed the turn: the agent selector moved on by one
\* position and the turn pointer is the agent it handed out
TurnConsumed ==
    /\ selector = (prev.selector + 1) % 4
    /\ agent_selection = possible_agents[prev.selector + 1]

\* the legality mask of the mover for the roll of the last step marked the
\* submitted action illegal
MaskedIllegal ==
    /\ Stepped
    /\ last_action \in 0..4
    /\ _mask_actions(prev.state, mover_agent, dice_roll)[last_action] = 0

\* the submitted action was enter without a roll of 6 or without a bench
\* token, or the move of a token that is on the bench
IllegalEnterOrBenchMove ==
    /\ Stepped
    /\ \/ /\ last_action = 0
          /\ \/ dice_roll # 6
             \/ \A t \in 0..3 : prev.state[mover][t] # -1
       \/ /\ last_action \in 1..4
          /\ prev.state[mover][last_action - 1] = -1

-----------------------------------------------------------------------------
(* C6 *)

\* the bench tokens of the mover before the last step
BenchBefore == {t \in 0..3 : prev.state[mover][t] = -1}

\* C6: enter with a roll of 6 and a bench token moves the lowest-index bench
\* token of the mover to the mover's start square and changes nothing else;
\* enter otherwise changes nothing; entering gives reward 0 and benches no
\* token.
C6_EnterMovesFirstBenchToken ==
    (Stepped /\ last_action = 0) =>
        /\ IF dice_roll = 6 /\ BenchBefore # {}
           THEN \E t \in BenchBefore :
                    /\ \A u \in BenchBefore : t <= u
                    /\ state = [prev.state EXCEPT ![mover][t] = StartSquare(mover)]
           ELSE state = prev.state
        /\ turn_reward = 0
        /\ Benched = {}

\* a token entered while token 0 of its player was on the board, two tokens
\* were on the bench and a token of another player stood on the start square
C6_Witness ==
    /\ Stepped /\ last_action = 0 /\ dice_roll = 6
    /\ prev.state[mover][0] # -1
    /\ Cardinality(BenchBefore) >= 2
    /\ state # prev.state
    /\ \E p \in 0..3, t \in 0..3 :
           p # mover /\ prev.state[p][t] = StartSquare(mover)

-----------------------------------------------------------------------------
(* C7 *)

\* C7: after every turn that does not end the game, the first one after
\* reset included, the player to move is the successor of the player who
\* just moved in the order Red, Green, Blue, Yellow.
C7_RoundRobinFromFirstTurn ==
    (Stepped /\ NoneDone) => agent_selection = Successor(mover_agent)

-----------------------------------------------------------------------------
(* C8 *)

\* some player has all four tokens at 58
SomePlayerFinished(board) == \E p \in 0..3 : \A t \in 0..3 : board[p][t] = 58

\* C8: the done flags are all false or all true; they are all true exactly
\* when some player has all four tokens at 58 (so they are true at the end
\* of the turn in which a fourth token reaches 58); once they are true, a
\* later step leaves them true and leaves the board unchanged.
C8_DoneFlagsTrackWin ==
    /\ AllDone \/ NoneDone
    /\ AllDone <=> SomePlayerFinished(state)
    /\ (last_op # "reset" /\ \A a \in {"red", "green", "blue", "yellow"} : prev._dones[a])
           => (AllDone /\ state = prev.state)

\* a fourth token reached 58 in some turn, and a step was made afterwards
C8_Witness ==
    /\ last_op = "was_done_step"
    /\ AllDone
    /\ SomePlayerFinished(state)
    /\ turns >= 2

-----------------------------------------------------------------------------
(* C9 *)

\* C9: when the moved token's new position is one of 0, 13, 26, 39, no token
\* is sent to the bench by that turn and the reward is 0.
C9_StartSquaresAreSafe ==
    \A k \in 0..3 :
        (Moved(k) /\ state[mover][k] \in {0, 13, 26, 39})
            => (Benched = {} /\ turn_reward = 0)

\* a token landed on a start square on which a token of another player stood
C9_Witness ==
    \E k \in 0..3 :
        /\ Moved(k)
        /\ state[mover][k] \in {0, 13, 26, 39}
        /\ prev.state[mover][k] # state[mover][k]
        /\ \E p \in 0..3, t \in 0..3 : p # mover /\ prev.state[p][t] = state[mover][k]

-----------------------------------------------------------------------------
(* C10 *)

\* the tokens of other players that stood on cell c before the last step
OpponentsOn(c) ==
    {pt \in (0..3) \X (0..3) : pt[1] # mover /\ prev.state[pt[1]][pt[2]] = c}

\* C10: when a move leaves the token on a cell c of 0..51 that is not a
\* start square: with exactly one token of another player on c, that token
\* is benched and the reward includes +1; with none, no token is benched and
\* the reward is 0; tokens of the mover on c are never benched.
C10_CaptureOnSharedLoop ==
    \A k \in 0..3 :
        LET c == state[mover][k]
        IN  (Moved(k) /\ c \in 0..51 /\ c \notin {0, 13, 26, 39}) =>
                /\ Cardinality(OpponentsOn(c)) = 1
                       => (Benched = OpponentsOn(c) /\ turn_reward = 1)
                /\ OpponentsOn(c) = {}
                       => (Benched = {} /\ turn_reward = 0)
                /\ \A t \in 0..3 : prev.state[mover][t] = c => state[mover][t] = c

\* a move captured the only opposing token on its landing cell
C10_Witness ==
    \E k \in 0..3 :
        LET c == state[mover][k]
        IN  /\ Moved(k)
            /\ c \in 0..51 /\ c \notin {0, 13, 26, 39}
            /\ Cardinality(OpponentsOn(c)) = 1
            /\ Benched = OpponentsOn(c)

-----------------------------------------------------------------------------
(* C11 *)

\* the player index of an agent
PlayerOf(agent) ==
    CASE agent = "red" -> 0
      [] agent = "green" -> 1
      [] agent = "blue" -> 2
      [] agent = "yellow" -> 3

\* m is the mask the claim describes for player p, board b and last roll r
MaskAsStated(m, b, p, r) ==
    /\ DOMAIN m = 0..4
    /\ \A i \in 0..4 : m[i] \in {0, 1}
    /\ m[0] = 1 <=> (r = 6 /\ \E t \in 0..3 : b[p][t] = -1)
    /\ \A k \in 0..3 : m[k + 1] = 1 <=> (b[p][k] # -1 /\ b[p][k] <= 58 - r)

\* C11: the mask of every player for the last roll is a 0/1 vector of
\* length 5 whose entry 0 is 1 iff the roll is 6 and the player has a bench
\* token and whose entry k+1 is 1 iff token k is on the board at a position
\* of at most 58 - roll; an observe call returns that mask and changes no
\* field of the object.
C11_MaskContentsAndPurity ==
    /\ \A a \in {"red", "green", "blue", "yellow"} :
           MaskAsStated(_mask_actions(state, a, dice_roll), state, PlayerOf(a), dice_roll)
    /\ last_op = "observe" =>
           /\ \E a \in {"red", "green", "blue", "yellow"} :
                  MaskAsStated(observation.action_mask, state, PlayerOf(a), dice_roll)
           /\ state = prev.state
           /\ agent_selection = prev.agent_selection
           /\ selector = prev.selector
           /\ dice_roll = prev.dice_roll
           /\ _dones = prev._dones
           /\ rewards = prev.rewards
           /\ _cumulative_rewards = prev._cumulative_rewards

\* an observation was returned whose mask allows the move of a token that
\* stands exactly on 58 - roll and forbids the move of a token beyond it
C11_Witness ==
    /\ last_op = "observe"
    /\ dice_roll \in 1..6
    /\ \E p \in 0..3 :
           /\ MaskAsStated(observation.action_mask, state, p, dice_roll)
           /\ \E k \in 0..3 : /\ state[p][k] = 58 - dice_roll
                               /\ observation.action_mask[k + 1] = 1
           /\ \E k \in 0..3 : /\ state[p][k] > 58 - dice_roll
                               /\ observation.action_mask[k + 1] = 0

-----------------------------------------------------------------------------
(* C12 *)

\* C12: after a reset, whatever the state it was called in, all 16 tokens
\* are on the bench, red is to move, the last roll is 0, no done flag is set
\* and all rewards are 0; the object is in the state of a freshly reset
\* game, so the run that follows is a run of a fresh game.
C12_ResetRestoresInitialState ==
    last_op = "reset" =>
        /\ \A p \in 0..3, t \in 0..3 : state[p][t] = -1
        /\ agent_selection = "red"
        /\ dice_roll = 0
        /\ NoneDone
        /\ \A a \in {"red", "green", "blue", "yellow"} :
               rewards[a] = 0 /\ _cumulative_rewards[a] = 0
        /\ fields = Play(AfterReset, FreshGame).fields

\* reset was called after the game had ended with rewards paid
C12_Witness ==
    /\ last_op = "reset"
    /\ \A a \in {"red", "green", "blue", "yellow"} : prev._dones[a]
    /\ \E a \in {"red", "green", "blue", "yellow"} : prev._cumulative_rewards[a] > 0
    /\ prev.selector # 0

-----------------------------------------------------------------------------
(* C13 *)

\* C13: the roll a step uses is the last-roll value that was in place when
\* the step was called, against which the mask shown to the acting player
\* was computed.
C13_RollNotRedrawnWithinTurn ==
    Stepped => dice_roll = prev.dice_roll

-----------------------------------------------------------------------------
(* C14 *)

\* the lowest value of each player's literal home-entry range
first(p) ==
    CASE p = 0 -> 51
      [] p = 1 -> 12
      [] p = 2 -> 25
      [] p = 3 -> 38

\* the shared-loop advance as the claim states it
StatedLoopAdvance(c, r, p) ==
    LET candidate == (c + r) % 52
    IN  IF candidate \in first(p)..(first(p) + 5)
        THEN 52 + (candidate - first(p))
        ELSE candidate

\* C14: for the player that made the last step and its roll r, a token at
\* any shared-loop position c goes to 52 + (candidate - first(p)) when
\* candidate = (c + r) mod 52 lies in the player's home-entry range and to
\* candidate otherwise; the token moved by the step stands there; a red
\* token enters the home stretch only from candidate 51 and at 52; a red
\* token at 49 with roll 4 goes to 1.
C14_SharedLoopAdvance ==
    /\ _calculate_new_position(49, 4, "red") = 1
    /\ Stepped =>
           /\ \A c \in 0..51 :
                  _calculate_new_position(c, dice_roll, mover_agent)
                      = StatedLoopAdvance(c, dice_roll, PlayerOf(mover_agent))
           /\ \A k \in 0..3 :
                  (Moved(k) /\ prev.state[mover][k] \in 0..51) =>
                      /\ state[mover][k]
                             = StatedLoopAdvance(prev.state[mover][k], dice_roll, mover)
                      /\ (mover_agent = "red" /\ state[mover][k] >= 52) =>
                             /\ (prev.state[mover][k] + dice_roll) % 52 = 51
                             /\ state[mover][k] = 52

\* a red token has entered the home stretch from the shared loop
C14_Witness ==
    /\ Stepped
    /\ mover_agent = "red"
    /\ \E k \in 0..3 :
           /\ Moved(k)
           /\ prev.state[0][k] \in 0..51
           /\ state[0][k] = 52

-----------------------------------------------------------------------------
(* C15 *)

\* C15: a token that a move takes from the shared loop into the home
\* stretch has advanced at least 51 steps on the loop since it last entered
\* from the bench.
C15_HomeEntryOnlyAfterLap ==
    \A k \in 0..3 :
        (/\ Moved(k)
         /\ prev.state[mover][k] \in 0..51
         /\ state[mover][k] \in 52..57) => advanced[mover][k] >= 51

-----------------------------------------------------------------------------
(* C16 *)

\* C16: for every player, the roll r of the last step and a token at c in
\* 52..56 the advance is min(c + r, 58), which is neither above 58 nor
\* below c; the home-stretch token moved by the step stands there; 55 with
\* roll 3 and 56 with roll 6 give 58.
C16_HomeStretchAdvanceSaturates ==
    /\ \A a \in {"red", "green", "blue", "yellow"} :
           /\ _calculate_new_position(55, 3, a) = 58
           /\ _calculate_new_position(56, 6, a) = 58
    /\ Stepped =>
           /\ \A a \in {"red", "green", "blue", "yellow"}, c \in 52..56 :
                  LET new_pos == _calculate_new_position(c, dice_roll, a)
                  IN  /\ new_pos = (IF c + dice_roll <= 58 THEN c + dice_roll ELSE 58)
                      /\ new_pos <= 58
                      /\ new_pos >= c
           /\ \A k \in 0..3 :
                  (Moved(k) /\ prev.state[mover][k] \in 52..56) =>
                      /\ state[mover][k]
                             = (IF prev.state[mover][k] + dice_roll <= 58
                                THEN prev.state[mover][k] + dice_roll ELSE 58)
                      /\ state[mover][k] \in prev.state[mover][k]..58

\* the two ends of the saturation at one square: a token at 55 was moved
\* with roll 6, the largest overshoot a scripted board offers, and stands
\* at 58, as min(55 + 3, 58) and min(55 + 6, 58) both demand
C16_Witness ==
    /\ Stepped
    /\ dice_roll = 6
    /\ \E k \in 0..3 :
           /\ Moved(k)
           /\ prev.state[mover][k] = 55
           /\ state[mover][k] = 58
           /\ _calculate_new_position(55, 3, mover_agent) = 58

-----------------------------------------------------------------------------
(* C17 *)

\* the pair of S that comes first in player order Red, Green, Blue, Yellow
\* and, within a player, has the lowest token index
FirstInPlayerOrder(S) ==
    CHOOSE a \in S : \A b \in S : 4 * a[1] + a[2] <= 4 * b[1] + b[2]

\* C17: a step sends at most one token to the bench; when the moved token
\* stands on a non-start cell on which two or more tokens of other players
\* stood, the first of them in player order and token index is the one
\* benched, the others still stand on the cell, and the reward is the
\* capture reward 1 (plus the finish reward 2 when the cell is 58).
C17_AtMostOneCapturePerTurn ==
    /\ Stepped => Cardinality(Benched) <= 1
    /\ \A k \in 0..3 :
           LET c == state[mover][k]
           IN  (/\ Moved(k)
                /\ c \notin {0, 13, 26, 39}
                /\ Cardinality(OpponentsOn(c)) >= 2) =>
                   /\ Benched = {FirstInPlayerOrder(OpponentsOn(c))}
                   /\ \A pt \in OpponentsOn(c) \ Benched : state[pt[1]][pt[2]] = c
                   /\ turn_reward = 1 + (IF c = 58 THEN 2 ELSE 0)

\* a move landed on a shared-loop cell with tokens of two other players;
\* one was benched and one still stands there
C17_Witness ==
    \E k \in 0..3 :
        LET c == state[mover][k]
        IN  /\ Moved(k)
            /\ c \in 0..51 /\ c \notin {0, 13, 26, 39}
            /\ prev.state[mover][k] # c
            /\ Cardinality({pt[1] : pt \in OpponentsOn(c)}) >= 2
            /\ Cardinality(Benched) = 1
            /\ \E pt \in OpponentsOn(c) : state[pt[1]][pt[2]] = c
            /\ turn_reward = 1

-----------------------------------------------------------------------------
(* C18 *)

\* C18: when the mask computed on the board before a step with the roll of
\* that step marks the move of token k legal, the step changes the position
\* of token k, and a home-stretch token at c in 52..57 ends at c + roll.
C18_MaskedLegalMoveAdvances ==
    \A k \in 0..3 :
        (/\ Moved(k)
         /\ _mask_actions(prev.state, mover_agent, dice_roll)[k + 1] = 1) =>
            /\ state[mover][k] # prev.state[mover][k]
            /\ prev.state[mover][k] \in 52..57 =>
                   state[mover][k] = prev.state[mover][k] + dice_roll

-----------------------------------------------------------------------------
(* C19 *)

\* the tokens of players other than the mover whose position the last call
\* changed
OthersChanged ==
    {pt \in (0..3) \X (0..3) :
        pt[1] # mover /\ state[pt[1]][pt[2]] # prev.state[pt[1]][pt[2]]}

\* C19: a step with action move-token-k changes no token of the mover other
\* than k, changes at most one token of the other players and that one to
\* the bench value, and changes no position at all when token k is on the
\* bench; a step with an action outside 0..4 changes no position.
C19_FrameOfMove ==
    /\ \A k \in 0..3 :
           (Stepped /\ last_action = k + 1) =>
               /\ \A t \in 0..3 \ {k} : state[mover][t] = prev.state[mover][t]
               /\ Cardinality(OthersChanged) <= 1
               /\ \A pt \in OthersChanged : state[pt[1]][pt[2]] = -1
               /\ prev.state[mover][k] = -1 => state = prev.state
    /\ (Stepped /\ last_action \notin 0..4) => state = prev.state

\* a move changed the moved token and one token of another player while the
\* mover had a second token on the board and a third on the bench
C19_Witness ==
    \E k \in 0..3 :
        /\ Moved(k)
        /\ state[mover][k] # prev.state[mover][k]
        /\ Cardinality(OthersChanged) = 1
        /\ \E t \in 0..3 \ {k} : state[mover][t] \in 0..57
        /\ \E t \in 0..3 \ {k} : state[mover][t] = -1

-----------------------------------------------------------------------------
(* C20 *)

\* the players with all four tokens at 58
Winners == {p \in 0..3 : \A t \in 0..3 : state[p][t] = 58}

\* C20: at most one player has all four tokens at 58, and after the step
\* that sets the done flags that player is the one that made the step and
\* the turn pointer still names it.
C20_WinnerIsUniqueAndLastMover ==
    /\ Cardinality(Winners) <= 1
    /\ (Stepped /\ AllDone) =>
           /\ Winners = {mover}
           /\ agent_selection = mover_agent

\* the step that ended the game: the done flags were false before it
C20_Witness ==
    /\ Stepped
    /\ AllDone
    /\ \A a \in {"red", "green", "blue", "yellow"} : ~prev._dones[a]
    /\ Winners # {}
    /\ agent_selection = prev.agent_selection

====
